---- MODULE Spec2Model ----
(***************************************************************************)
(* Model of wtrc's forecast acquisition pipeline: the day-partitioned      *)
(* filesystem cache (libweather_cache.c), the Tiempo document parser and   *)
(* the cache-first acquisition routine wtr_tiempo_forecast_get             *)
(* (libweather_tiempo.c).                                                  *)
(*                                                                         *)
(* Conventions.                                                            *)
(*  - A C pointer is a sequence of length at most one: NULL is <<>> and a  *)
(*    pointer to v is <<v>>.                                               *)
(*  - A byte buffer is a sequence of byte values 0..255.  A C string is    *)
(*    the part of a buffer before its first 0 byte.                        *)
(*  - File names are strings; the filesystem is a function from the names  *)
(*    of the existing files to their contents.                             *)
(***************************************************************************)
EXTENDS Integers, Sequences, FiniteSets, TLC

(***************************************************************************)
(* Bounds of the model.                                                    *)
(***************************************************************************)
\* Number of calendar days the local clock passes through.
MaxDay == 2

\* Largest number of children of the location element in the generated
\* documents.
MaxChildren == 3

(***************************************************************************)
(* Program constants.                                                      *)
(***************************************************************************)
MAX_WTR_CACHE_TEMP_DIR_LENGTH == 1024
HTTP_OK == 200
WTR_DRIVER_TIEMPO == "tiempo"

NULL == <<>>
Ptr(v) == <<v>>
Deref(p) == p[1]

\* The compiled-in registry, in order.
WTR_LOCATIONS ==
  << [name |-> "ACQUASPARTA",    province |-> "TR", code |-> "28756"],
     [name |-> "MONTECASTRILLI", province |-> "TR", code |-> "30429"],
     [name |-> "ORVIETO",        province |-> "TR", code |-> "30625"],
     [name |-> "TERNI",          province |-> "TR", code |-> "31553"],
     [name |-> "PERUGIA",        province |-> "PG", code |-> "30721"] >>

\* The location codes get_forecasts hands to wtr_tiempo_forecast_get.
Codes == { WTR_LOCATIONS[3].code, WTR_LOCATIONS[4].code }

(***************************************************************************)
(* C strings.                                                              *)
(***************************************************************************)
\* strlen: the number of bytes before the first 0 byte.  Every buffer of
\* the program carries a terminating 0 after its last byte, so a buffer
\* without a 0 byte has its whole length.
RECURSIVE strlen(_)
strlen(buf) ==
  IF buf = <<>> \/ Head(buf) = 0 THEN 0 ELSE 1 + strlen(Tail(buf))

\* The bytes a function taking a NUL-terminated string sees in buf.
CStr(buf) == SubSeq(buf, 1, strlen(buf))

\* g_snprintf(out, n, ...): at most n - 1 characters of the formatted text.
g_snprintf(n, text) ==
  IF Len(text) < n THEN text ELSE SubSeq(text, 1, n - 1)

(***************************************************************************)
(* The XML capability (libxml2), restricted to the documents of the model. *)
(* An element is [name, value, dir, children]; value and dir are what      *)
(* xmlGetProp returns for the attributes "value" and "dir": a pointer to   *)
(* the attribute's text, or NULL when the element has no such attribute.   *)
(* A text or comment node is an element-like record named "text".          *)
(***************************************************************************)
\* An element without attributes.
Elem(name, children) ==
  [name |-> name, value |-> NULL, dir |-> NULL, children |-> children]

\* An element with a "value" attribute.
Node(name, value, children) ==
  [name |-> name, value |-> Ptr(value), dir |-> NULL, children |-> children]

Leaf(name, value) == Node(name, value, <<>>)

\* xmlGetProp(node, property)
xmlGetProp(node, property) ==
  CASE property = "value" -> node.value
    [] property = "dir"   -> node.dir
    [] OTHER              -> NULL

\* report > location > (interesting, day (symbol, hour, hour), day (hour))
TreeA ==
  Elem("report", <<
    Elem("location", <<
      Elem("interesting", <<>>),
      Node("day", "20180308", <<
        Leaf("symbol", "1"),
        Node("hour", "10:00", << Leaf("temp", "12") >>),
        Node("hour", "13:00", << Leaf("temp", "14") >>) >>),
      Node("day", "20180309", <<
        Node("hour", "10:00", << Leaf("temp", "9") >>) >>) >>) >>)

\* report > location > day
TreeB ==
  Elem("report", <<
    Elem("location", <<
      Node("day", "20180310", << Leaf("tempmin", "3") >>) >>) >>)

\* A well-formed document of another vocabulary.
TreeHtml == Elem("html", << Elem("body", <<>>) >>)

\* A report whose first child node is white space, then the location.
TreeIndented ==
  Elem("report", <<
    Elem("text", <<>>),
    Elem("location", << Node("day", "20180308", <<>>) >>) >>)

\* <report/>: a report with no child at all.
TreeEmptyReport == Elem("report", <<>>)

\* The byte buffers the HTTP server can answer with.
BodyA        == <<60, 65, 62>>            \* TreeA, UTF-8
BodyB        == <<60, 66, 62>>            \* TreeB, UTF-8
BodyUtf16    == <<255, 254, 60, 0, 66, 0>> \* TreeB, UTF-16LE with byte order mark
BodyHtml     == <<60, 72, 62>>            \* TreeHtml, UTF-8
BodyIndented == <<60, 73, 62>>            \* TreeIndented, UTF-8
BodyEmptyRep == <<60, 69, 62>>            \* TreeEmptyReport, UTF-8
BodyGarbage  == <<60, 60>>                \* not well-formed
BodyNone     == <<>>                      \* an empty response body

Bodies ==
  { BodyA, BodyB, BodyUtf16, BodyHtml, BodyIndented, BodyEmptyRep,
    BodyGarbage, BodyNone }

\* Five days, the first two with eight hours each.
Tree5x8 ==
  Elem("report", <<
    Elem("location",
      [i \in 1..5 |->
         Node("day", "2018030" \o ToString(i),
           [j \in 1..(IF i <= 2 THEN 8 ELSE 0) |->
              Node("hour", ToString(j) \o ":00", <<>>)])]) >>)

Body5x8 == <<60, 53, 62>>                 \* Tree5x8, UTF-8

\* The children a location element has in the generated documents: a day
\* without children, a day with one hour, a day with two hours among
\* other tags, an element that is no day, and white space.
ChildKinds == 1..5

LocationChild(kind, i) ==
  LET date == "201803" \o ToString(10 + i) IN
  CASE kind = 1 -> Node("day", date, <<>>)
    [] kind = 2 -> Node("day", date, <<
                     Leaf("symbol", "2"),
                     Node("hour", "07:00", << Leaf("temp", "5") >>) >>)
    [] kind = 3 -> Node("day", date, <<
                     Elem("text", <<>>),
                     Node("hour", "10:00", <<
                       Elem("text", <<>>), Leaf("clouds", "30"),
                       Leaf("temp", "12") >>),
                     Leaf("sun", "06:30"),
                     Leaf("tempmax", "14"),
                     Node("hour", "13:00", << Leaf("temp", "14") >>),
                     Node("moon", "1", << Node("hour", "23:00", <<>>) >>) >>)
    [] kind = 4 -> Node("interesting", "1", <<
                     Node("day", "20180301", <<>>),
                     Node("hour", "01:00", <<>>) >>)
    [] kind = 5 -> Elem("text", <<>>)

\* report > location > the children of the given kinds
StructTree(kinds) ==
  Elem("report", <<
    Elem("location", [i \in 1..Len(kinds) |-> LocationChild(kinds[i], i)]) >>)

StructBody(kinds) == <<60, 83>> \o [i \in 1..Len(kinds) |-> 64 + kinds[i]] \o <<62>>

StructBodies ==
  { StructBody(kinds) : kinds \in UNION { [1..n -> ChildKinds] : n \in 0..MaxChildren } }

\* The tags of the measurements of a day and of an hour.
DayTags ==
  << "symbol", "tempmin", "tempmax", "wind", "rain", "humidity", "pressure" >>
HourTags == << "symbol", "temp", "wind", "rain", "humidity", "pressure" >>

\* The texts of a "value" attribute in the generated documents.
AttrValues ==
  << "12", "-3", "+7", "007", "", " 5", "5 ", "5x", "x", "-", "1.5",
     "2147483647", "2147483648", "-2147483648", "-2147483649",
     "99999999999999999999" >>

\* The element <tag value="..."/>, or <tag/> for v = 0; a wind element has
\* its direction too.
Measurement(tag, v) ==
  [name     |-> tag,
   value    |-> IF v = 0 THEN NULL ELSE Ptr(AttrValues[v]),
   dir      |-> IF tag = "wind" THEN Ptr("NE") ELSE NULL,
   children |-> <<>>]

\* Two days; the measurement is a child of the first day for t in
\* 1..Len(DayTags) and a child of its first hour for the next Len(HourTags).
MeasureTree(t, v) ==
  LET ofDay  == IF t <= Len(DayTags)
                THEN << Measurement(DayTags[t], v) >> ELSE <<>>
      ofHour == IF t > Len(DayTags)
                THEN << Measurement(HourTags[t - Len(DayTags)], v) >> ELSE <<>>
  IN
  Elem("report", <<
    Elem("location", <<
      Node("day", "20180308",
        << Leaf("tempmin", "3"), Leaf("rain", "0.5"), Leaf("tempmax", "9") >>
        \o ofDay \o
        << Node("hour", "10:00",
             << Leaf("temp", "12"), Leaf("humidity", "70") >> \o ofHour),
           Node("hour", "13:00", << Leaf("pressure", "1000") >>) >>),
      Node("day", "20180309", <<
        Leaf("humidity", "80"),
        Node("hour", "10:00", << Leaf("temp", "9") >>) >>) >>) >>)

MeasureBody(t, v) == <<60, 77, 64 + t, 64 + v, 62>>

MeasureBodies ==
  { MeasureBody(t, v) : t \in 1..(Len(DayTags) + Len(HourTags)),
                        v \in 0..Len(AttrValues) }

\* The texts of the "value" attribute of a day and of an hour in the
\* generated documents.
DayValues ==
  << "20180308", "20181231", "20160229", "20180229", "20180431", "2018038",
     "20181301", "", "x" >>
HourValues ==
  << "10:00", "07:05", "7:05", "23:59", "00:00", "1:00", "24:00", "30:00",
     "10", "10:60", "ab", "" >>

\* A day of value DayValues[d] whose first hour has the value HourValues[h],
\* or no value for h = 0, and a second day.
TimeTree(d, h) ==
  Elem("report", <<
    Elem("location", <<
      Node("day", DayValues[d], <<
        Leaf("tempmin", "3"),
        [name |-> "hour",
         value |-> IF h = 0 THEN NULL ELSE Ptr(HourValues[h]),
         dir |-> NULL,
         children |-> << Leaf("temp", "12") >>],
        Node("hour", "13:30", <<>>) >>),
      Node("day", "20180309", << Node("hour", "08:15", <<>>) >>) >>) >>)

TimeBody(d, h) == <<60, 84, 64 + d, 64 + h, 62>>

TimeBodies ==
  { TimeBody(d, h) : d \in 1..Len(DayValues), h \in 0..Len(HourValues) }

\* xmlReadMemory(content, length, ...): the document tree of the first
\* length bytes of content, or NULL when they are not a well-formed document.
\* The encoding is detected from the first bytes, so a UTF-16 document, which
\* has a 0 byte in every ASCII character, gives the same tree as its UTF-8
\* form.  No proper prefix of a document is well-formed.
xmlReadMemory(content, length) ==
  LET bytes == SubSeq(content, 1, length) IN
  CASE bytes = BodyA        -> Ptr(TreeA)
    [] bytes = BodyB        -> Ptr(TreeB)
    [] bytes = BodyUtf16    -> Ptr(TreeB)
    [] bytes = BodyHtml     -> Ptr(TreeHtml)
    [] bytes = BodyIndented -> Ptr(TreeIndented)
    [] bytes = BodyEmptyRep -> Ptr(TreeEmptyReport)
    [] bytes = Body5x8      -> Ptr(Tree5x8)
    [] bytes \in StructBodies ->
         Ptr(StructTree([i \in 1..(Len(bytes) - 3) |-> bytes[i + 2] - 64]))
    [] bytes \in MeasureBodies -> Ptr(MeasureTree(bytes[3] - 64, bytes[4] - 64))
    [] bytes \in TimeBodies -> Ptr(TimeTree(bytes[3] - 64, bytes[4] - 64))
    [] OTHER                -> NULL

(***************************************************************************)
(* Typed attribute accessors (libutils.c).  A C string is a string here;   *)
(* the character at position Len(s) + 1 is its terminating '\0'.           *)
(***************************************************************************)
INT_MAX == 2147483647
INT_MIN == -INT_MAX - 1

\* s[i - 1] of the C code: one character, "" for the terminating '\0'.
Char(s, i) == IF i > Len(s) THEN "" ELSE SubSeq(s, i, i)

isspace(c) == c \in {" ", "\t", "\n", "\r", "\f"}

isdigit(c) == \E d \in 0..9 : Char("0123456789", d + 1) = c

DigitVal(c) == CHOOSE d \in 0..9 : Char("0123456789", d + 1) = c

\* The digits of strtol from position i on.  The number is accumulated as
\* -n so that INT_MIN is reached; out says that the digits read so far
\* are a number below INT_MIN (above INT_MAX after the sign is applied),
\* whether or not it still fits a long.
RECURSIVE strtol_digits(_, _, _, _)
strtol_digits(s, i, n, out) ==
  IF ~isdigit(Char(s, i)) THEN [end |-> i, n |-> n, out |-> out]
  ELSE
    LET d == DigitVal(Char(s, i))
        fits == /\ ~out
                /\ \/ n > -(INT_MAX \div 10)
                   \/ n = -(INT_MAX \div 10) /\ d <= (INT_MAX % 10) + 1
    IN  IF fits THEN strtol_digits(s, i + 1, n * 10 - d, FALSE)
        ELSE strtol_digits(s, i + 1, n, TRUE)

\* White space skipped by strtol.
RECURSIVE strtol_skip(_, _)
strtol_skip(s, i) == IF isspace(Char(s, i)) THEN strtol_skip(s, i + 1) ELSE i

\* strtol(s, &end, 10): l is the number when range is "int"; range is
\* "above" when the number is greater than INT_MAX and "below" when it is
\* less than INT_MIN (LONG_MAX and LONG_MIN with ERANGE included); end is
\* the position of the first character that is not part of the number, 1
\* when there are no digits.
strtol(s) ==
  LET b == strtol_skip(s, 1)
      neg == Char(s, b) = "-"
      first == IF Char(s, b) \in {"-", "+"} THEN b + 1 ELSE b
      Number(r) ==
        IF r.end = first THEN [l |-> 0, range |-> "int", end |-> 1]
        ELSE IF r.out
             THEN [l |-> 0, range |-> IF neg THEN "below" ELSE "above", end |-> r.end]
        ELSE IF ~neg /\ r.n = INT_MIN THEN [l |-> 0, range |-> "above", end |-> r.end]
        ELSE [l |-> IF neg THEN r.n ELSE -r.n, range |-> "int", end |-> r.end]
  IN  Number(strtol_digits(s, first, 0, FALSE))

\* A field or a variable nothing was stored in has no value: <<>>; after
\* v was stored in it, it is <<v>>.
Indeterminate == <<>>
Stored(v) == <<v>>

\* str2int(&out, s, 10); s is a pointer, read without a check.
str2int(s) ==
  IF s = NULL THEN [fault |-> TRUE, errno |-> "", out |-> Indeterminate]
  ELSE
    LET str == Deref(s)
        Check(r) ==
          IF r.range = "above"
          THEN [fault |-> FALSE, errno |-> "STR2INT_OVERFLOW", out |-> Indeterminate]
          ELSE IF r.range = "below"
          THEN [fault |-> FALSE, errno |-> "STR2INT_UNDERFLOW", out |-> Indeterminate]
          ELSE IF Char(str, r.end) # ""
          THEN [fault |-> FALSE, errno |-> "STR2INT_INCONVERTIBLE", out |-> Indeterminate]
          ELSE [fault |-> FALSE, errno |-> "STR2INT_SUCCESS", out |-> Stored(r.l)]
    IN  IF Char(str, 1) = "" \/ isspace(Char(str, 1))
        THEN [fault |-> FALSE, errno |-> "STR2INT_INCONVERTIBLE", out |-> Indeterminate]
        ELSE Check(strtol(str))

\* xmlGetPropInt: the attribute as an int, INT_MIN when str2int fails.
xmlGetPropInt(node, property) ==
  LET Value(r) ==
        [fault |-> r.fault,
         ret   |-> IF r.errno # "STR2INT_SUCCESS" THEN INT_MIN ELSE Deref(r.out)]
  IN  Value(str2int(xmlGetProp(node, property)))

\* The digits from position i on.
RECURSIVE strtod_digits(_, _)
strtod_digits(s, i) ==
  IF isdigit(Char(s, i)) THEN strtod_digits(s, i + 1) ELSE i

\* strtod(s, &end) for decimal numbers without exponent, all of which are
\* in the range of a double: the number is kept as its text.
strtod(s) ==
  LET Number(b, first, end) ==
        IF end = first THEN [d |-> "0", end |-> 1]
        ELSE [d |-> SubSeq(s, b, end - 1), end |-> end]
      Fraction(b, first, int, frac) ==
        Number(b, first, IF frac = int + 1 /\ int = first THEN first ELSE frac)
      Point(b, first, int) ==
        Fraction(b, first, int,
                 IF Char(s, int) = "." THEN strtod_digits(s, int + 1) ELSE int)
      Digits(b, first) == Point(b, first, strtod_digits(s, first))
      Sign(b) == Digits(b, IF Char(s, b) \in {"-", "+"} THEN b + 1 ELSE b)
  IN  Sign(strtol_skip(s, 1))

DBL_MIN == "DBL_MIN"

\* str2double(&out, s)
str2double(s) ==
  IF s = NULL THEN [fault |-> TRUE, errno |-> "", out |-> Indeterminate]
  ELSE
    LET str == Deref(s)
        Check(r) ==
          IF Char(str, r.end) # ""
          THEN [fault |-> FALSE, errno |-> "STR2DOUBLE_INCONVERTIBLE", out |-> Indeterminate]
          ELSE [fault |-> FALSE, errno |-> "STR2DOUBLE_SUCCESS", out |-> Stored(r.d)]
    IN  IF Char(str, 1) = "" \/ isspace(Char(str, 1))
        THEN [fault |-> FALSE, errno |-> "STR2DOUBLE_INCONVERTIBLE", out |-> Indeterminate]
        ELSE Check(strtod(str))

\* xmlGetPropDouble: the attribute as a double, DBL_MIN when str2double fails.
xmlGetPropDouble(node, property) ==
  LET Value(r) ==
        [fault |-> r.fault,
         ret   |-> IF r.errno # "STR2DOUBLE_SUCCESS" THEN DBL_MIN ELSE Deref(r.out)]
  IN  Value(str2double(xmlGetProp(node, property)))

\* struct tm time_struct = {0}
TmZero ==
  [tm_year |-> 0, tm_mon |-> 0, tm_mday |-> 0, tm_hour |-> 0, tm_min |-> 0,
   tm_sec |-> 0]

\* The digits strptime reads after the first one of a number: at most n
\* more, and none once ten times the number read so far is greater than to.
RECURSIVE get_digits(_, _, _, _, _)
get_digits(s, i, val, n, to) ==
  IF n > 0 /\ val * 10 <= to /\ isdigit(Char(s, i))
  THEN get_digits(s, i + 1, val * 10 + DigitVal(Char(s, i)), n - 1, to)
  ELSE [val |-> val, end |-> i]

\* Blanks skipped by strptime before a number.
RECURSIVE skip_blanks(_, _)
skip_blanks(s, i) == IF Char(s, i) = " " THEN skip_blanks(s, i + 1) ELSE i

\* The number of at most n digits in from..to that strptime reads at
\* position i: ok says whether there is one, end is where reading stopped.
get_number(s, i, from, to, n) ==
  LET InRange(r) == [ok |-> r.val >= from /\ r.val <= to, val |-> r.val,
                     end |-> r.end]
      First(b) ==
        IF ~isdigit(Char(s, b)) THEN [ok |-> FALSE, val |-> 0, end |-> b]
        ELSE InRange(get_digits(s, b + 1, DigitVal(Char(s, b)), n - 1, to))
  IN  First(skip_blanks(s, i))

\* The field a conversion of the format stores in, the range of its number
\* and what is stored for the number v.
TmField(c) ==
  CASE c = "Y" -> [field |-> "tm_year", from |-> 0, to |-> 9999, n |-> 4, off |-> -1900]
    [] c = "m" -> [field |-> "tm_mon",  from |-> 1, to |-> 12,   n |-> 2, off |-> -1]
    [] c = "d" -> [field |-> "tm_mday", from |-> 1, to |-> 31,   n |-> 2, off |-> 0]
    [] c = "H" -> [field |-> "tm_hour", from |-> 0, to |-> 23,   n |-> 2, off |-> 0]
    [] c = "M" -> [field |-> "tm_min",  from |-> 0, to |-> 59,   n |-> 2, off |-> 0]

\* strptime(s, format, &tm) from position i of s and f of the format: the
\* fields read before the first mismatch are stored, the others are left
\* alone.  The formats of the program have the conversions of TmField and
\* ordinary characters.
RECURSIVE strptime(_, _, _, _, _)
strptime(s, i, format, f, tm) ==
  LET Store(c, r) ==
        IF ~r.ok THEN tm
        ELSE strptime(s, r.end, format, f + 2,
                      [tm EXCEPT ![c.field] = r.val + c.off])
      Conversion(c) == Store(c, get_number(s, i, c.from, c.to, c.n))
  IN  IF Char(format, f) = "" THEN tm
      ELSE IF Char(format, f) = "%" THEN Conversion(TmField(Char(format, f + 1)))
      ELSE IF Char(s, i) = Char(format, f)
           THEN strptime(s, i + 1, format, f + 1, tm)
      ELSE tm

\* The number of the day y-m-d counted from 1970-01-01, for m in 1..12 and
\* any d: the day-of-month may lie outside the month, as mktime allows.
days_from_civil(y, m, d) ==
  LET Count(yy, mp) ==
        LET era == yy \div 400
            yoe == yy - era * 400
            doy == (153 * mp + 2) \div 5 + d - 1
        IN  era * 146097 + yoe * 365 + yoe \div 4 - yoe \div 100 + doy - 719468
  IN  Count(IF m <= 2 THEN y - 1 ELSE y, IF m > 2 THEN m - 3 ELSE m + 9)

\* The year, month and day of the day numbered z.
civil_from_days(z) ==
  LET Civil(era, doe) ==
        LET yoe == (doe - doe \div 1460 + doe \div 36524 - doe \div 146096) \div 365
            doy == doe - (365 * yoe + yoe \div 4 - yoe \div 100)
            mp  == (5 * doy + 2) \div 153
            m   == IF mp < 10 THEN mp + 3 ELSE mp - 9
        IN  [year  |-> yoe + era * 400 + (IF m <= 2 THEN 1 ELSE 0),
             month |-> m,
             day   |-> doy - (153 * mp + 2) \div 5 + 1]
  IN  Civil((z + 719468) \div 146097, (z + 719468) % 146097)

\* mktime(&tm): the instant of the local time in tm, as the number of its
\* day and the second of that day (a time_t of 64 bits holds every instant
\* of the model; the offset of the local time zone is the same at every
\* instant of the model and is left out).
mktime(tm) ==
  [day    |-> days_from_civil(tm.tm_year + 1900, tm.tm_mon + 1, tm.tm_mday),
   second |-> tm.tm_hour * 3600 + tm.tm_min * 60 + tm.tm_sec]

\* g_date_time_new_from_unix_local(t): the local date and time of an instant.
g_date_time_new_from_unix_local(t) ==
  LET DateTime(date) ==
        [year |-> date.year, month |-> date.month, day |-> date.day,
         hour |-> t.second \div 3600, minute |-> (t.second % 3600) \div 60,
         second |-> t.second % 60]
  IN  DateTime(civil_from_days(t.day))

\* Mutant: the minutes are dropped.
g_date_time_new_local_OnTheHour(year, month, day, hour, minute, seconds) ==
  [year |-> year, month |-> month, day |-> day,
   hour |-> hour, minute |-> 0, second |-> seconds]

\* g_date_time_new_local(year, month, day, hour, minute, seconds)
g_date_time_new_local(year, month, day, hour, minute, seconds) ==
  [year |-> year, month |-> month, day |-> day,
   hour |-> hour, minute |-> minute, second |-> seconds]

\* parseDateTime(str, format): strptime reads str without a check and its
\* result is not looked at.
parseDateTime(str, format) ==
  IF str = NULL THEN [fault |-> TRUE, ret |-> NULL]
  ELSE [fault |-> FALSE,
        ret   |-> Ptr(g_date_time_new_from_unix_local(
                        mktime(strptime(Deref(str), 1, format, 1, TmZero))))]

(***************************************************************************)
(* The document parser (libweather_tiempo.c).  A field of a day or of an   *)
(* hour is <<>> until the parser stores a value in it (g_malloc does not   *)
(* initialise the struct).  Every function returns what it returns (ret)   *)
(* and whether it read through a NULL pointer (fault).                     *)
(***************************************************************************)
\* Mutant: every child is taken, whatever its tag.
ChildrenNamed_AnyTag(seq, tag) == seq

\* The elements of seq with the given tag, in order.
ChildrenNamed(seq, tag) == SelectSeq(seq, LAMBDA n : n.name = tag)

\* field = r of one branch of the loops over the children.
Assign(struct, field, r) ==
  IF r.fault THEN [ret |-> struct, fault |-> TRUE]
  ELSE [ret |-> [struct EXCEPT ![field] = Stored(r.ret)], fault |-> FALSE]

\* for (child = xmlHour->children; child; child = child->next)
RECURSIVE wtr_forecast_parse_hour_children(_, _)
wtr_forecast_parse_hour_children(children, hour) ==
  LET child == Head(children)
      Rest(r) == IF r.fault THEN r
                 ELSE wtr_forecast_parse_hour_children(Tail(children), r.ret)
  IN  IF children = <<>> THEN [ret |-> hour, fault |-> FALSE]
      ELSE Rest(CASE child.name = "symbol" ->
                       Assign(hour, "weather", xmlGetPropInt(child, "value"))
                  [] child.name = "temp" ->
                       Assign(hour, "temp", xmlGetPropInt(child, "value"))
                  [] child.name = "wind" ->
                       Assign([hour EXCEPT !.wind_dir = xmlGetProp(child, "dir")],
                              "wind_speed", xmlGetPropInt(child, "value"))
                  [] child.name = "rain" ->
                       Assign(hour, "rain", xmlGetPropDouble(child, "value"))
                  [] child.name = "humidity" ->
                       Assign(hour, "humidity", xmlGetPropInt(child, "value"))
                  [] child.name = "pressure" ->
                       Assign(hour, "pressure", xmlGetPropInt(child, "value"))
                  [] OTHER -> [ret |-> hour, fault |-> FALSE])

\* wtr_forecast_parse_hour: the time of day of the hour element combined
\* with the date of the enclosing day, and the fields its children give.
wtr_forecast_parse_hour(xmlHour, day) ==
  LET value == xmlGetProp(xmlHour, "value")
      Hour(tstamp) ==
        [tstamp |-> tstamp,
         weather |-> Indeterminate, temp |-> Indeterminate,
         wind_speed |-> Indeterminate, wind_dir |-> NULL,
         rain |-> Indeterminate, humidity |-> Indeterminate,
         pressure |-> Indeterminate]
      Time(only_time) ==
        IF only_time.fault THEN [ret |-> Hour(NULL), fault |-> TRUE]
        ELSE wtr_forecast_parse_hour_children(
               xmlHour.children,
               Hour(Ptr(g_date_time_new_local(
                          Deref(day.date).year, Deref(day.date).month,
                          Deref(day.date).day, Deref(only_time.ret).hour,
                          Deref(only_time.ret).minute, 0))))
  IN  Time(parseDateTime(value, "%H:%M"))

\* for (child = xmlDay->children; child; child = child->next)
RECURSIVE wtr_forecast_parse_day_children(_, _)
wtr_forecast_parse_day_children(children, day) ==
  LET child == Head(children)
      Hour(hour) == [ret   |-> [day EXCEPT !.hours = Append(@, hour.ret)],
                     fault |-> hour.fault]
      Rest(r) == IF r.fault THEN r
                 ELSE wtr_forecast_parse_day_children(Tail(children), r.ret)
  IN  IF children = <<>> THEN [ret |-> day, fault |-> FALSE]
      ELSE Rest(CASE child.name = "symbol" ->
                       Assign(day, "weather", xmlGetPropInt(child, "value"))
                  [] child.name = "tempmin" ->
                       Assign(day, "temp_min", xmlGetPropInt(child, "value"))
                  [] child.name = "tempmax" ->
                       Assign(day, "temp_max", xmlGetPropInt(child, "value"))
                  [] child.name = "wind" ->
                       Assign(day, "wind_speed", xmlGetPropInt(child, "value"))
                  [] child.name = "rain" ->
                       Assign(day, "rain", xmlGetPropDouble(child, "value"))
                  [] child.name = "humidity" ->
                       Assign(day, "humidity", xmlGetPropInt(child, "value"))
                  [] child.name = "pressure" ->
                       Assign(day, "pressure", xmlGetPropInt(child, "value"))
                  [] child.name = "hour" ->
                       Hour(wtr_forecast_parse_hour(child, day))
                  [] OTHER -> [ret |-> day, fault |-> FALSE])

\* wtr_forecast_parse_day: the date of the day element, the fields its
\* children give and one hour per child tagged "hour", in document order.
wtr_forecast_parse_day(xmlDay) ==
  LET value == xmlGetProp(xmlDay, "value")
      Day(date) ==
        [date |-> date.ret, weather |-> Indeterminate,
         temp_min |-> Indeterminate, temp_max |-> Indeterminate,
         wind_speed |-> Indeterminate, rain |-> Indeterminate,
         humidity |-> Indeterminate, pressure |-> Indeterminate,
         hours |-> <<>>]
      Date(date) ==
        IF date.fault THEN [ret |-> Day(date), fault |-> TRUE]
        ELSE wtr_forecast_parse_day_children(xmlDay.children, Day(date))
  IN  Date(parseDateTime(value, "%Y%m%d"))

\* The three outcomes of a parse: a forecast, NULL with one line on stderr,
\* or a fault of the process.
ParseResult(fcast, err, fault) ==
  [forecast |-> fcast, err |-> err, fault |-> fault]

ParseDiag(msg) == [stage |-> "parse", detail |-> msg]

\* Mutant: the name of the root element is not looked at.
wtr_forecast_parse_AnyRoot(content, length) ==
  LET doc == xmlReadMemory(content, length) IN
  IF doc = NULL
  THEN ParseResult(NULL, <<ParseDiag("Failed to parse document")>>, FALSE)
  ELSE
    LET report == Deref(doc) IN
      IF report.children = <<>>
      THEN ParseResult(NULL, <<>>, TRUE)
      ELSE
        LET location == Head(report.children) IN
        IF location.name # "location"
        THEN ParseResult(NULL,
               <<ParseDiag("location element inside report not found")>>, FALSE)
        ELSE
          LET xmlDays == ChildrenNamed(location.children, "day")
              Days(days) ==
                IF \E i \in 1..Len(days) : days[i].fault
                THEN ParseResult(NULL, <<>>, TRUE)
                ELSE ParseResult(
                       Ptr([days |-> [i \in 1..Len(days) |-> days[i].ret]]),
                       <<>>, FALSE)
          IN  Days([i \in 1..Len(xmlDays) |-> wtr_forecast_parse_day(xmlDays[i])])

\* wtr_forecast_parse(content, length).  report->children is NULL for a
\* report without children, and location->name then reads through NULL.
wtr_forecast_parse(content, length) ==
  LET doc == xmlReadMemory(content, length) IN
  IF doc = NULL
  THEN ParseResult(NULL, <<ParseDiag("Failed to parse document")>>, FALSE)
  ELSE
    LET report == Deref(doc) IN
    IF report.name # "report"
    THEN ParseResult(NULL, <<ParseDiag("root element report not found")>>, FALSE)
    ELSE
      IF report.children = <<>>
      THEN ParseResult(NULL, <<>>, TRUE)
      ELSE
        LET location == Head(report.children) IN
        IF location.name # "location"
        THEN ParseResult(NULL,
               <<ParseDiag("location element inside report not found")>>, FALSE)
        ELSE
          LET xmlDays == ChildrenNamed(location.children, "day")
              Days(days) ==
                IF \E i \in 1..Len(days) : days[i].fault
                THEN ParseResult(NULL, <<>>, TRUE)
                ELSE ParseResult(
                       Ptr([days |-> [i \in 1..Len(days) |-> days[i].ret]]),
                       <<>>, FALSE)
          IN  Days([i \in 1..Len(xmlDays) |-> wtr_forecast_parse_day(xmlDays[i])])

(***************************************************************************)
(* The location directory (libweather.c).  Strings are ASCII.              *)
(***************************************************************************)
ASCII_LOWER == "abcdefghijklmnopqrstuvwxyz"
ASCII_UPPER == "ABCDEFGHIJKLMNOPQRSTUVWXYZ"

\* The upper case of one character.
UpperChar(c) ==
  IF \E n \in 1..26 : Char(ASCII_LOWER, n) = c
  THEN Char(ASCII_UPPER, CHOOSE n \in 1..26 : Char(ASCII_LOWER, n) = c)
  ELSE c

\* g_utf8_strup(str, -1)
RECURSIVE g_utf8_strup(_)
g_utf8_strup(str) ==
  IF str = "" THEN ""
  ELSE UpperChar(Char(str, 1)) \o g_utf8_strup(SubSeq(str, 2, Len(str)))

\* Mutant: the needle is looked for at the start of the haystack only.
strstr_AtStart(haystack, needle) ==
  IF Len(needle) <= Len(haystack) /\ SubSeq(haystack, 1, Len(needle)) = needle
  THEN Ptr(1) ELSE NULL

\* strstr(haystack, needle): a pointer to the first occurrence, or NULL.
strstr(haystack, needle) ==
  LET at == { i \in 1..(Len(haystack) - Len(needle) + 1) :
                SubSeq(haystack, i, i + Len(needle) - 1) = needle }
  IN  IF at = {} THEN NULL
      ELSE Ptr(CHOOSE i \in at : \A j \in at : i <= j)

\* g_strcmp0(str1, str2): 0 for equal strings; of the other results only
\* that they are not 0 is kept.
g_strcmp0(str1, str2) == IF str1 = str2 THEN 0 ELSE 1

\* Mutant: the query is compared as it was typed.
wtr_location_search_AsTyped(query, search_type) ==
  LET nameUpper == query IN
  SelectSeq([i \in 1..Len(WTR_LOCATIONS) |-> i],
    LAMBDA i :
      \/ /\ search_type = "WTR_SEARCH_LOCATION_PARTIAL_NAME"
         /\ strstr(WTR_LOCATIONS[i].name, nameUpper) # NULL
      \/ /\ search_type = "WTR_SEARCH_LOCATION_EXACT_NAME"
         /\ g_strcmp0(WTR_LOCATIONS[i].name, nameUpper) = 0
      \/ /\ search_type = "WTR_SEARCH_LOCATION_EXACT_CODE"
         /\ g_strcmp0(WTR_LOCATIONS[i].code, nameUpper) = 0)

\* Mutant: a code matches when it contains the query.
wtr_location_search_CodeContains(query, search_type) ==
  LET nameUpper == g_utf8_strup(query) IN
  SelectSeq([i \in 1..Len(WTR_LOCATIONS) |-> i],
    LAMBDA i :
      \/ /\ search_type = "WTR_SEARCH_LOCATION_PARTIAL_NAME"
         /\ strstr(WTR_LOCATIONS[i].name, nameUpper) # NULL
      \/ /\ search_type = "WTR_SEARCH_LOCATION_EXACT_NAME"
         /\ g_strcmp0(WTR_LOCATIONS[i].name, nameUpper) = 0
      \/ /\ search_type = "WTR_SEARCH_LOCATION_EXACT_CODE"
         /\ strstr(WTR_LOCATIONS[i].code, nameUpper) # NULL)

\* wtr_location_search: the list of the pointers &WTR_LOCATIONS[i] that
\* match, a pointer being the index i.  The query is upper-cased for all
\* three search types.
wtr_location_search(query, search_type) ==
  LET nameUpper == g_utf8_strup(query) IN
  SelectSeq([i \in 1..Len(WTR_LOCATIONS) |-> i],
    LAMBDA i :
      \/ /\ search_type = "WTR_SEARCH_LOCATION_PARTIAL_NAME"
         /\ strstr(WTR_LOCATIONS[i].name, nameUpper) # NULL
      \/ /\ search_type = "WTR_SEARCH_LOCATION_EXACT_NAME"
         /\ g_strcmp0(WTR_LOCATIONS[i].name, nameUpper) = 0
      \/ /\ search_type = "WTR_SEARCH_LOCATION_EXACT_CODE"
         /\ g_strcmp0(WTR_LOCATIONS[i].code, nameUpper) = 0)

\* wtr_location_search_type
SearchTypes ==
  { "WTR_SEARCH_LOCATION_PARTIAL_NAME", "WTR_SEARCH_LOCATION_EXACT_NAME",
    "WTR_SEARCH_LOCATION_EXACT_CODE" }

(***************************************************************************)
(* The day-partitioned cache (libweather_cache.c).  Every operation takes  *)
(* the local date `now`, the files `fs` and the directories `ds` it acts   *)
(* on and returns what it returns together with what it leaves behind.     *)
(***************************************************************************)
\* g_get_tmp_dir()
TmpDir == "/tmp"

\* Mutant: the partition is named after one fixed date.
DayStr_Frozen(d) == "20180301"

\* g_date_time_format(today, "%Y%m%d") for the days of the model.
DayStr(d) == "2018030" \o ToString(d)

\* wtr_cache_dir: <tmp>/libweather, created when it is not a directory.
wtr_cache_dir(ds) ==
  LET cache_dir == g_snprintf(MAX_WTR_CACHE_TEMP_DIR_LENGTH, TmpDir \o "/libweather")
  IN  [ret |-> cache_dir, dirs |-> ds \cup {cache_dir}]

\* wtr_cache_dir_today: <tmp>/libweather/<yyyymmdd>, created when it is
\* not a directory.
wtr_cache_dir_today(now, ds) ==
  LET d == wtr_cache_dir(ds)
      cache_dir_today ==
        g_snprintf(MAX_WTR_CACHE_TEMP_DIR_LENGTH, d.ret \o "/" \o DayStr(now))
  IN  [ret |-> cache_dir_today, dirs |-> d.dirs \cup {cache_dir_today}]

\* wtr_cache_temp_file: <tmp>/libweather/<yyyymmdd>/<driver>-<location_code>
wtr_cache_temp_file(driver, location_code, now, ds) ==
  LET d == wtr_cache_dir_today(now, ds)
      file == g_snprintf(MAX_WTR_CACHE_TEMP_DIR_LENGTH,
                         d.ret \o "/" \o driver \o "-" \o location_code)
  IN  [ret |-> file, dirs |-> d.dirs]

\* wtr_cache_get: the contents of today's file for the key, or NULL when
\* g_file_get_contents cannot read it.
wtr_cache_get(driver, location_code, now, fs, ds) ==
  LET f == wtr_cache_temp_file(driver, location_code, now, ds) IN
  [ret  |-> IF f.ret \in DOMAIN fs THEN Ptr(fs[f.ret]) ELSE NULL,
   dirs |-> f.dirs]

\* Mutant: the file is written into the cache directory, not into today's.
wtr_cache_set_NoPartition(driver, location_code, data_, now, fs, ds) ==
  LET d == wtr_cache_dir(ds)
      file == g_snprintf(MAX_WTR_CACHE_TEMP_DIR_LENGTH,
                         d.ret \o "/" \o driver \o "-" \o location_code)
  IN  [files |-> [x \in DOMAIN fs \cup {file} |->
                    IF x = file THEN CStr(data_) ELSE fs[x]],
       dirs  |-> d.dirs]

\* wtr_cache_set: g_file_set_contents(file, data, -1, NULL) replaces the
\* file's contents by the NUL-terminated string at data.
wtr_cache_set(driver, location_code, data_, now, fs, ds) ==
  LET f == wtr_cache_temp_file(driver, location_code, now, ds) IN
  [files |-> [x \in DOMAIN fs \cup {f.ret} |->
                IF x = f.ret THEN CStr(data_) ELSE fs[x]],
   dirs  |-> f.dirs]

(***************************************************************************)
(* Printing and freeing a forecast (libweather.c).                         *)
(***************************************************************************)
\* The texts of wtr_weather_description for WTR_CLEAR .. WTR_OVERCAST_SLEET.
WeatherDescriptions ==
  << "Clear", "Scattered clouds", "Cloudy", "Overcast",
     "Scattered clouds with light rain", "Cloudy with light rain",
     "Overcast with light rain", "Scattered clouds with moderate rain",
     "Cloudy with moderate rain", "Overcast with moderate rain",
     "Scattered clouds with thunderstorms", "Cloudy with thunderstorms",
     "Overcast with thunderstorms",
     "Scattered clouds with thunderstorms and hailstorms",
     "Cloudy with thunderstorms and hailstorms",
     "Overcast with thunderstorms and hailstorms",
     "Scattered clouds with snow", "Cloudy with snow", "Overcast with snow",
     "Scattered clouds with sleet", "Cloudy with sleet", "Overcast with sleet" >>

\* wtr_weather_description
wtr_weather_description(weather) ==
  IF weather \in 1..Len(WeatherDescriptions)
  THEN WeatherDescriptions[weather] ELSE "Unknown"

\* What a read of a field gives: the value stored in it, and garbage when
\* nothing was stored in it.
Read(field, garbage) == IF field = Indeterminate THEN garbage ELSE Deref(field)

\* The values a read of an int nothing was stored in gives in the model.
Garbage == { 0, 77 }

\* g_date_time_format(datetime, format), kept as its arguments.
g_date_time_format(datetime, format) == [datetime |-> datetime, format |-> format]

\* A line of text on stdout.
Text(line) == [text |-> line]

\* The line of a day in the summary and of an hour in the details.
DayLine(day, garbage) ==
  [date_str   |-> g_date_time_format(day.date, "%a %e"),
   temp_min   |-> Read(day.temp_min, garbage),
   temp_max   |-> Read(day.temp_max, garbage),
   humidity   |-> Read(day.humidity, garbage),
   wind_speed |-> Read(day.wind_speed, garbage),
   weather    |-> wtr_weather_description(Read(day.weather, garbage))]

HourLine(hour, garbage) ==
  [tstamp_str |-> g_date_time_format(hour.tstamp, "%H:%M"),
   temp       |-> Read(hour.temp, garbage),
   weather    |-> wtr_weather_description(Read(hour.weather, garbage))]

\* The details of the days from the k-th on.
RECURSIVE DetailLines(_, _, _)
DetailLines(days, k, garbage) ==
  IF k > Len(days) THEN <<>>
  ELSE << [date_str |-> g_date_time_format(days[k].date, "%A, %e %B")],
          Text("Time  Temp Weather"), Text("----  ---- -------") >>
       \o [h \in 1..Len(days[k].hours) |-> HourLine(days[k].hours[h], garbage)]
       \o DetailLines(days, k + 1, garbage)

\* Mutant: printing the details takes the hours out of the days.
wtr_forecast_print_TakesHours(fcast, details, garbage) ==
  LET header == << Text("Date Min Max Humidity Wind Weather"),
                   Text("---- --- --- -------- ---- -------") >>
  IN
  IF fcast = NULL THEN [out |-> header, forecast |-> fcast, fault |-> TRUE]
  ELSE
    LET days == Deref(fcast).days IN
    [out |-> header \o [k \in 1..Len(days) |-> DayLine(days[k], garbage)]
               \o (IF details THEN DetailLines(days, 1, garbage) ELSE <<>>),
     forecast |-> IF details
                  THEN Ptr([days |-> [k \in 1..Len(days) |->
                                        [days[k] EXCEPT !.hours = <<>>]]])
                  ELSE fcast,
     fault |-> FALSE]

\* wtr_forecast_print(forecast, details): the lines printed (out), the
\* forecast as the call leaves it, and whether forecast->days was read
\* through NULL (after the two header lines).
wtr_forecast_print(fcast, details, garbage) ==
  LET header == << Text("Date Min Max Humidity Wind Weather"),
                   Text("---- --- --- -------- ---- -------") >>
  IN
  IF fcast = NULL THEN [out |-> header, forecast |-> fcast, fault |-> TRUE]
  ELSE
    LET days == Deref(fcast).days IN
    [out |-> header \o [k \in 1..Len(days) |-> DayLine(days[k], garbage)]
               \o (IF details THEN DetailLines(days, 1, garbage) ELSE <<>>),
     forecast |-> fcast,
     fault |-> FALSE]

\* wtr_forecast_free(forecast): every hour, every day and the forecast are
\* freed; forecast->days is read without a check.
wtr_forecast_free(fcast) ==
  [forecast |-> NULL, fault |-> fcast = NULL]

(***************************************************************************)
(* The HTTP capability (libnet.c).                                         *)
(***************************************************************************)
TIEMPO_URL_MAX_LENGTH == 256
TIEMPO_AFFILATE_ID == "0123456789abcd"

\* wtr_tiempo_forecast_url
wtr_tiempo_forecast_url(location_code) ==
  g_snprintf(TIEMPO_URL_MAX_LENGTH,
             "http://api.ilmeteo.net/index.php?api_lang=it&localidad="
               \o location_code \o "&affiliate_id=" \o TIEMPO_AFFILATE_ID
               \o "&v=2&h=1")

\* net_http_rawdata; buffer is the pointer to the len bytes received.
RawData(curl_code, http_code, bytes) ==
  [curl_code |-> curl_code, http_code |-> http_code,
   buffer |-> Ptr(bytes), len |-> Len(bytes)]

\* net_http_rawdata_init
net_http_rawdata_init == RawData(0, 0, <<>>)

\* net_http_rawdata_free
net_http_rawdata_free(d) == [d EXCEPT !.buffer = NULL]

CURLE_COULDNT_CONNECT == 7
CURLE_PARTIAL_FILE == 18

\* net_http_get(url): what curl_easy_perform can leave in the rawdata.  A
\* failed transfer has no response code; it may have delivered bytes.
net_http_get(url) ==
       { RawData(CURLE_COULDNT_CONNECT, 0, BodyNone),
         RawData(CURLE_PARTIAL_FILE, 0, BodyA) }
  \cup { RawData(0, HTTP_OK, b) : b \in Bodies \ {BodyB} }
  \cup { RawData(0, c, b) : c \in {404, 500}, b \in {BodyA, BodyHtml, BodyNone} }

(***************************************************************************)
(* State.                                                                  *)
(***************************************************************************)
\* The invocations of the program; each calls wtr_tiempo_forecast_get, and
\* under Spec one runs at a time (the pipeline is synchronous).
Procs == {1, 2}

VARIABLES
  today,       \* the local date, a day number
  dirs,        \* the directories that exist
  files,       \* the files that exist, with their contents
  pc,          \* pc[p]: where p is in wtr_tiempo_forecast_get
  code,        \* code[p]: the location code p was called with
  cached_xml,  \* cached_xml[p]
  data,        \* data[p]: the net_http_rawdata of p
  forecast,    \* forecast[p]: the value p returns
  stderr,      \* stderr[p]: the diagnostics p has written
  trace,       \* trace[p]: the calls p has made to its collaborators
  before,      \* before[p]: the files as they were when p was called
  stdout,      \* stdout[p]: the lines p has printed
  netOK,       \* <<code, day>>: a fetch of that day was parsed and stored
  returned,    \* <<stage, value>>: a call that failed at stage returned value
  got,         \* result of the last wtr_cache_get of a cache client
  lastSet,     \* <<day, driver, code>> -> bytes of the last wtr_cache_set
  parse,       \* the last wtr_forecast_parse of a parser client
  found        \* the last wtr_location_search of a directory client

vars ==
  << today, dirs, files, pc, code, cached_xml, data, forecast, stderr,
     trace, before, stdout, netOK, returned, got, lastSet, parse, found >>

procVars ==
  << pc, code, cached_xml, data, forecast, stderr, trace, before, stdout >>
clientVars == << got, lastSet, parse, found >>

Init ==
  /\ today = 1
  /\ dirs = {}
  /\ files = << >>
  /\ pc = [p \in Procs |-> "idle"]
  /\ code = [p \in Procs |-> ""]
  /\ cached_xml = [p \in Procs |-> NULL]
  /\ data = [p \in Procs |-> net_http_rawdata_free(net_http_rawdata_init)]
  /\ forecast = [p \in Procs |-> NULL]
  /\ stderr = [p \in Procs |-> <<>>]
  /\ trace = [p \in Procs |-> <<>>]
  /\ before = [p \in Procs |-> << >>]
  /\ stdout = [p \in Procs |-> <<>>]
  /\ netOK = {}
  /\ returned = {}
  /\ got = NULL
  /\ lastSet = << >>
  /\ parse = NULL
  /\ found = NULL

\* One call of p to a collaborator: the state of the acquisition that made
\* it, the date, the bytes handed over or received, the transfer's codes.
Call(state, op, day, bytes, status) ==
  [state |-> state, op |-> op, day |-> day, bytes |-> bytes, status |-> status]

\* A line on stderr.
Diag(stage, detail) == [stage |-> stage, detail |-> detail]

(***************************************************************************)
(* The decisions of wtr_tiempo_forecast_get.                               *)
(***************************************************************************)
\* Mutant: the cached XML is looked up but the download is made anyway.
AfterLookup_AlwaysDownload(xml) == "NetworkFetch"

\* if (cached_xml != NULL): use the cached XML, else download.
AfterLookup(xml) == IF xml # NULL THEN "ParseCached" ELSE "NetworkFetch"

\* Mutant: cached XML that does not parse is treated as a cache miss.
AfterCachedParse_FallsBack(r) ==
  IF r.fault THEN "crashed"
  ELSE IF r.forecast = NULL THEN "NetworkFetch" ELSE "done"

\* The cached branch returns whatever the parser returned.
AfterCachedParse(r) == IF r.fault THEN "crashed" ELSE "done"

\* Mutant: the curl code is not looked at.
TransferStage_IgnoresCurl(d) ==
  IF d.http_code # HTTP_OK THEN "status" ELSE "ok"

\* Mutant: the status code is not looked at.
TransferStage_IgnoresStatus(d) ==
  IF d.curl_code # 0 THEN "transport" ELSE "ok"

\* if (data.curl_code) ... else if (data.http_code != 200) ... else ...
TransferStage(d) ==
  IF d.curl_code # 0 THEN "transport"
  ELSE IF d.http_code # HTTP_OK THEN "status"
  ELSE "ok"

\* Mutant: the status branch prints the curl code.
TransferDiag_WrongCode(d) ==
  CASE TransferStage(d) = "transport" -> << Diag("transport", d.curl_code) >>
    [] TransferStage(d) = "status"    -> << Diag("status", d.curl_code) >>
    [] OTHER                          -> << >>

\* The g_printerr of the failed transfer.
TransferDiag(d) ==
  CASE TransferStage(d) = "transport" -> << Diag("transport", d.curl_code) >>
    [] TransferStage(d) = "status"    -> << Diag("status", d.http_code) >>
    [] OTHER                          -> << >>

\* if (forecast != NULL) wtr_cache_set(...): don't cache incorrect XML data.
AfterFreshParse(r) ==
  IF r.fault THEN "crashed"
  ELSE IF r.forecast # NULL THEN "CacheStore" ELSE "done"

(***************************************************************************)
(* wtr_tiempo_forecast_get, one action per call to a collaborator.         *)
(***************************************************************************)
\* The call itself: forecast = NULL.
Start(p, c) ==
  /\ pc[p] = "idle"
  /\ \A q \in Procs : pc[q] = "idle"
  /\ pc' = [pc EXCEPT ![p] = "CacheLookup"]
  /\ code' = [code EXCEPT ![p] = c]
  /\ forecast' = [forecast EXCEPT ![p] = NULL]
  /\ before' = [before EXCEPT ![p] = files]
  /\ UNCHANGED << today, dirs, files, cached_xml, data, stderr, trace, netOK,
                  returned, stdout, clientVars >>

\* cached_xml = wtr_cache_get(WTR_DRIVER_TIEMPO, code)
CacheLookup(p) ==
  /\ pc[p] = "CacheLookup"
  /\ LET r == wtr_cache_get(WTR_DRIVER_TIEMPO, code[p], today, files, dirs) IN
       /\ cached_xml' = [cached_xml EXCEPT ![p] = r.ret]
       /\ dirs' = r.dirs
       /\ pc' = [pc EXCEPT ![p] = AfterLookup(r.ret)]
       /\ trace' = [trace EXCEPT ![p] =
            Append(@, Call("CacheLookup", "Cache.get", today, r.ret, <<>>))]
  /\ UNCHANGED << today, files, code, data, forecast, stderr, before, netOK,
                  returned, stdout, clientVars >>

\* forecast = wtr_forecast_parse(cached_xml, strlen(cached_xml)); g_free
ParseCached(p) ==
  /\ pc[p] = "ParseCached"
  /\ LET xml == Deref(cached_xml[p])
         r   == wtr_forecast_parse(xml, strlen(xml))
     IN
       /\ pc' = [pc EXCEPT ![p] = AfterCachedParse(r)]
       /\ forecast' = [forecast EXCEPT ![p] = r.forecast]
       /\ stderr' = [stderr EXCEPT ![p] = @ \o r.err]
       /\ cached_xml' = [cached_xml EXCEPT ![p] = IF r.fault THEN @ ELSE NULL]
       /\ trace' = [trace EXCEPT ![p] =
            Append(@, Call("ParseCached", "Parser.parse", today,
                           Ptr(SubSeq(xml, 1, strlen(xml))), <<>>))]
       /\ returned' = IF r.fault \/ r.forecast # NULL THEN returned
                       ELSE returned \cup { <<"parse", r.forecast>> }
  /\ UNCHANGED << today, dirs, files, code, data, before, netOK, stdout,
                  clientVars >>

\* data = net_http_get(url) and the two checks of the transfer.
NetworkFetch(p) ==
  /\ pc[p] = "NetworkFetch"
  /\ \E d \in net_http_get(wtr_tiempo_forecast_url(code[p])) :
       /\ trace' = [trace EXCEPT ![p] =
            Append(@, Call("NetworkFetch", "HttpClient.get", today, d.buffer,
                           <<d.curl_code, d.http_code>>))]
       /\ stderr' = [stderr EXCEPT ![p] = @ \o TransferDiag(d)]
       /\ IF TransferStage(d) = "ok"
          THEN /\ data' = [data EXCEPT ![p] = d]
               /\ pc' = [pc EXCEPT ![p] = "ParseFresh"]
               /\ returned' = returned
          ELSE /\ data' = [data EXCEPT ![p] = net_http_rawdata_free(d)]
               /\ pc' = [pc EXCEPT ![p] = "done"]
               /\ returned' = returned \cup { <<TransferStage(d), forecast[p]>> }
  /\ UNCHANGED << today, dirs, files, code, cached_xml, forecast, before,
                  netOK, stdout, clientVars >>

\* forecast = wtr_forecast_parse(data.buffer, data.len)
ParseFresh(p) ==
  /\ pc[p] = "ParseFresh"
  /\ LET buf == Deref(data[p].buffer)
         r   == wtr_forecast_parse(buf, data[p].len)
     IN
       /\ forecast' = [forecast EXCEPT ![p] = r.forecast]
       /\ stderr' = [stderr EXCEPT ![p] = @ \o r.err]
       /\ pc' = [pc EXCEPT ![p] = AfterFreshParse(r)]
       /\ data' = [data EXCEPT ![p] =
                   IF AfterFreshParse(r) = "done" THEN net_http_rawdata_free(@)
                   ELSE @]
       /\ trace' = [trace EXCEPT ![p] =
            Append(@, Call("ParseFresh", "Parser.parse", today,
                           Ptr(SubSeq(buf, 1, data[p].len)), <<>>))]
       /\ returned' = IF r.fault \/ r.forecast # NULL THEN returned
                       ELSE returned \cup { <<"parse", r.forecast>> }
  /\ UNCHANGED << today, dirs, files, code, cached_xml, before, netOK,
                  stdout, clientVars >>

\* if (forecast != NULL) wtr_cache_set(WTR_DRIVER_TIEMPO, code, data.buffer)
CacheStore(p) ==
  /\ pc[p] = "CacheStore"
  /\ LET buf == Deref(data[p].buffer)
         r   == wtr_cache_set(WTR_DRIVER_TIEMPO, code[p], buf, today, files, dirs)
         f   == wtr_cache_temp_file(WTR_DRIVER_TIEMPO, code[p], today, dirs).ret
     IN
       /\ files' = r.files
       /\ dirs' = r.dirs
       /\ trace' = [trace EXCEPT ![p] =
            Append(@, Call("CacheStore", "Cache.set", today,
                           IF f \in DOMAIN r.files THEN Ptr(r.files[f]) ELSE NULL,
                           <<>>))]
  /\ netOK' = netOK \cup { <<code[p], today>>, <<code[p], trace[p][2].day>> }
  /\ data' = [data EXCEPT ![p] = net_http_rawdata_free(@)]
  /\ pc' = [pc EXCEPT ![p] = "done"]
  /\ UNCHANGED << today, code, cached_xml, forecast, stderr, before,
                  returned, stdout, clientVars >>

\* The invocation ends; its locals and its output are gone.
Exit(p) ==
  /\ pc[p] \in {"done", "crashed"}
  /\ pc' = [pc EXCEPT ![p] = "idle"]
  /\ code' = [code EXCEPT ![p] = ""]
  /\ cached_xml' = [cached_xml EXCEPT ![p] = NULL]
  /\ data' = [data EXCEPT ![p] = net_http_rawdata_free(net_http_rawdata_init)]
  /\ forecast' = [forecast EXCEPT ![p] = NULL]
  /\ stderr' = [stderr EXCEPT ![p] = <<>>]
  /\ trace' = [trace EXCEPT ![p] = <<>>]
  /\ before' = [before EXCEPT ![p] = << >>]
  /\ stdout' = [stdout EXCEPT ![p] = <<>>]
  /\ UNCHANGED << today, dirs, files, netOK, returned, clientVars >>

\* The local date moves on to the next day.
Midnight ==
  /\ today < MaxDay
  /\ today' = today + 1
  /\ UNCHANGED << dirs, files, procVars, netOK, returned, clientVars >>

(***************************************************************************)
(* A client of the cache interface of libweather_cache.h, calling          *)
(* wtr_cache_set and wtr_cache_get with its own driver names and codes.    *)
(***************************************************************************)
\* The keys of the client: the program's own key and two keys of another
\* driver naming scheme.
ClientKeys == { <<WTR_DRIVER_TIEMPO, "30625">>, <<"a", "b-c">>, <<"a-b", "c">> }

\* The buffers the client stores.
ClientData == { BodyB, BodyUtf16 }

\* wtr_cache_set(driver, location_code, data)
ClientSet(driver, location_code, bytes) ==
  /\ LET r == wtr_cache_set(driver, location_code, bytes, today, files, dirs) IN
       /\ files' = r.files
       /\ dirs' = r.dirs
  /\ lastSet' = [k \in DOMAIN lastSet \cup { <<today, driver, location_code>> } |->
                   IF k = <<today, driver, location_code>> THEN bytes
                   ELSE lastSet[k]]
  /\ UNCHANGED << today, procVars, netOK, returned, got, parse, found >>

\* wtr_cache_get(driver, location_code)
ClientGet(driver, location_code) ==
  /\ LET r == wtr_cache_get(driver, location_code, today, files, dirs) IN
       /\ got' = Ptr([driver |-> driver, location_code |-> location_code,
                      ret |-> r.ret])
       /\ dirs' = r.dirs
  /\ UNCHANGED << today, files, procVars, netOK, returned, lastSet, parse,
                  found >>

CacheNext ==
  \/ \E k \in ClientKeys, b \in ClientData : ClientSet(k[1], k[2], b)
  \/ \E k \in ClientKeys : ClientGet(k[1], k[2])
  \/ Midnight

CacheSpec == Init /\ [][CacheNext]_vars

(***************************************************************************)
(* A client of the parser: wtr_forecast_parse on the first length bytes of *)
(* a buffer.                                                               *)
(***************************************************************************)
ParserInputs ==
  Bodies \cup { Body5x8 } \cup StructBodies \cup MeasureBodies \cup TimeBodies

\* wtr_forecast_parse(content, length), the one call of a run of the client.
ClientParse(content, length) ==
  /\ parse = NULL
  /\ parse' = Ptr([content |-> content, length |-> length,
                   ret |-> wtr_forecast_parse(content, length)])
  /\ UNCHANGED << today, dirs, files, procVars, netOK, returned, got, lastSet,
                  found >>

ParserNext ==
  \E content \in ParserInputs :
    \E length \in 0..Len(content) : ClientParse(content, length)

ParserSpec == Init /\ [][ParserNext]_vars

(***************************************************************************)
(* A client of the location directory: wtr_location_search with queries    *)
(* made of the names and codes of the registry.                            *)
(***************************************************************************)
\* The substrings of s, the empty one included.
Substrings(s) ==
  { SubSeq(s, i, j) : i \in 1..(Len(s) + 1), j \in 0..Len(s) }

\* s in lower case, and s with every second letter in lower case.
RECURSIVE Recase(_, _, _)
Recase(s, k, every) ==
  IF k > Len(s) THEN ""
  ELSE LET c == Char(s, k)
           l == IF k % every = 0 /\ \E n \in 1..26 : Char(ASCII_UPPER, n) = c
                THEN Char(ASCII_LOWER, CHOOSE n \in 1..26 : Char(ASCII_UPPER, n) = c)
                ELSE c
       IN  l \o Recase(s, k + 1, every)

Queries ==
  LET upper == UNION { Substrings(WTR_LOCATIONS[i].name) \cup
                       Substrings(WTR_LOCATIONS[i].code) :
                         i \in 1..Len(WTR_LOCATIONS) }
  IN  upper
      \cup { Recase(q, 1, 1) : q \in upper }
      \cup { Recase(q, 1, 2) : q \in upper }
      \cup { "ROM", "TERNI ", " TERNI", "TERNIX", "terni-", "30625a", "3O625",
             "PERUGIA30721", "tr", "pg" }

\* wtr_location_search(query, search_type), the one call of a run of the
\* client.
ClientSearch(query, search_type) ==
  /\ found = NULL
  /\ found' = Ptr([query |-> query, search_type |-> search_type,
                   ret |-> wtr_location_search(query, search_type)])
  /\ UNCHANGED << today, dirs, files, procVars, netOK, returned, got, lastSet,
                  parse >>

SearchNext ==
  \E query \in Queries, search_type \in SearchTypes :
    ClientSearch(query, search_type)

SearchSpec == Init /\ [][SearchNext]_vars

Next ==
  \/ \E p \in Procs, c \in Codes : Start(p, c)
  \/ \E p \in Procs : CacheLookup(p)
  \/ \E p \in Procs : ParseCached(p)
  \/ \E p \in Procs : NetworkFetch(p)
  \/ \E p \in Procs : ParseFresh(p)
  \/ \E p \in Procs : CacheStore(p)
  \/ \E p \in Procs : Exit(p)
  \/ Midnight

Spec == Init /\ [][Next]_vars

(***************************************************************************)
(* Invocations of the program that run at the same time: each looks up,    *)
(* downloads, parses and stores on its own, then prints the forecast and   *)
(* frees it (get_forecasts, wtrc.c).  The date does not change.            *)
(***************************************************************************)
\* wtr_tiempo_forecast_get(location->code), whatever the others are doing.
ConcStart(p, c) ==
  /\ pc[p] = "idle"
  /\ pc' = [pc EXCEPT ![p] = "CacheLookup"]
  /\ code' = [code EXCEPT ![p] = c]
  /\ forecast' = [forecast EXCEPT ![p] = NULL]
  /\ before' = [before EXCEPT ![p] = files]
  /\ UNCHANGED << today, dirs, files, cached_xml, data, stderr, trace, netOK,
                  returned, stdout, clientVars >>

\* wtr_forecast_print(forecast, opt_hour)
ShowForecast(p, details) ==
  /\ pc[p] = "done"
  /\ \E garbage \in Garbage :
       LET r == wtr_forecast_print(forecast[p], details, garbage) IN
         /\ stdout' = [stdout EXCEPT ![p] = @ \o r.out]
         /\ forecast' = [forecast EXCEPT ![p] = r.forecast]
         /\ pc' = [pc EXCEPT ![p] = IF r.fault THEN "crashed" ELSE "printed"]
  /\ UNCHANGED << today, dirs, files, code, cached_xml, data, stderr, trace,
                  before, netOK, returned, clientVars >>

\* wtr_forecast_free(forecast)
FreeForecast(p) ==
  /\ pc[p] = "printed"
  /\ LET r == wtr_forecast_free(forecast[p]) IN
       /\ forecast' = [forecast EXCEPT ![p] = r.forecast]
       /\ pc' = [pc EXCEPT ![p] = IF r.fault THEN "crashed" ELSE "freed"]
  /\ UNCHANGED << today, dirs, files, code, cached_xml, data, stderr, trace,
                  before, stdout, netOK, returned, clientVars >>

ConcNext ==
  \/ \E p \in Procs, c \in Codes : ConcStart(p, c)
  \/ \E p \in Procs : CacheLookup(p)
  \/ \E p \in Procs : ParseCached(p)
  \/ \E p \in Procs : NetworkFetch(p)
  \/ \E p \in Procs : ParseFresh(p)
  \/ \E p \in Procs : CacheStore(p)
  \/ \E p \in Procs, details \in BOOLEAN : ShowForecast(p, details)
  \/ \E p \in Procs : FreeForecast(p)

ConcSpec == Init /\ [][ConcNext]_vars

(***************************************************************************)
(* Properties of the acquisition, checked under Spec.                      *)
(***************************************************************************)
\* The first call of an acquisition is the cache lookup.
Hit(p) == trace[p] # <<>> /\ trace[p][1].bytes # NULL
Miss(p) == trace[p] # <<>> /\ trace[p][1].bytes = NULL

\* The calls p has made to one collaborator.
Calls(p, op) == SelectSeq(trace[p], LAMBDA e : e.op = op)

\* Today's cache file of the program for a location code on a given day.
CacheFile(day, c) == wtr_cache_temp_file(WTR_DRIVER_TIEMPO, c, day, dirs).ret

\* What a parse of a whole buffer gives.
Parsed(bytes) == wtr_forecast_parse(bytes, Len(bytes))

\* C1: the cache is written only after the response body of the same call
\* was parsed successfully, the bytes written are exactly the bytes that
\* were parsed, and a failed parse of the response leaves the cache as it
\* was.
C1_WriteFollowsParseOfSameBytes ==
  \A p \in Procs :
    /\ \A i \in 1..Len(trace[p]) :
         trace[p][i].op = "Cache.set" =>
           /\ i = 4
           /\ trace[p][2].op = "HttpClient.get"
           /\ trace[p][3].op = "Parser.parse"
           /\ trace[p][3].bytes = trace[p][2].bytes
           /\ forecast[p] # NULL
           /\ trace[p][4].bytes = trace[p][3].bytes
    /\ ( /\ pc[p] = "done"
         /\ Len(trace[p]) = 3
         /\ trace[p][3].state = "ParseFresh"
         /\ forecast[p] = NULL ) => files = before[p]

\* C2: on a cache hit the bytes of the cache file, and nothing else, are
\* parsed; there is no HTTP request and no cache write, and the files are
\* what they were before the call.
C2_HitIsServedFromCache ==
  \A p \in Procs :
    Hit(p) =>
      /\ pc[p] \in {"ParseCached", "done"}
      /\ CacheFile(trace[p][1].day, code[p]) \in DOMAIN before[p]
      /\ trace[p][1].bytes = Ptr(before[p][CacheFile(trace[p][1].day, code[p])])
      /\ Len(trace[p]) <= 2
      /\ pc[p] = "done" => Len(trace[p]) = 2
      /\ \A i \in 2..Len(trace[p]) :
           /\ trace[p][i].op = "Parser.parse"
           /\ trace[p][i].bytes = trace[p][1].bytes
      /\ Calls(p, "HttpClient.get") = <<>>
      /\ Calls(p, "Cache.set") = <<>>
      /\ files = before[p]

\* A call served from the cache has returned a forecast.
C2_Witness ==
  \E p \in Procs : pc[p] = "done" /\ Hit(p) /\ forecast[p] # NULL

\* The bytes of a cache file do not parse (and the parser survives them).
Unparseable(bytes) ==
  LET r == wtr_forecast_parse(bytes, strlen(bytes)) IN
  ~r.fault /\ r.forecast = NULL

C3_FailureIsTheOutcome ==
  \A p \in Procs :
    (Hit(p) /\ pc[p] # "ParseCached" /\ Unparseable(Deref(trace[p][1].bytes))) =>
      /\ pc[p] = "done"
      /\ forecast[p] = NULL
      /\ stderr[p] = Parsed(Deref(trace[p][1].bytes)).err
      /\ Len(stderr[p]) = 1
      /\ stderr[p][1].stage = "parse"
      /\ Len(trace[p]) = 2
      /\ trace[p][2].op = "Parser.parse"
      /\ files = before[p]

C3_EntryStays ==
  \A f \in DOMAIN files :
    Unparseable(files[f]) => (f \in DOMAIN files' /\ files'[f] = files[f])

\* C3: when the cached bytes fail to parse, that parse failure is the
\* outcome of the call: no HTTP request is made and the files are not
\* changed; and no step of the program changes or removes a cache file
\* whose bytes fail to parse, so every later call for the key on that day
\* ends the same way.
C3_CachedParseFailureIsFinal ==
  [] C3_FailureIsTheOutcome /\ [][C3_EntryStays]_vars

\* A call has hit a cache file that does not parse, and has returned.
C3_Witness ==
  \E p \in Procs :
    /\ pc[p] = "done"
    /\ Hit(p)
    /\ Unparseable(Deref(trace[p][1].bytes))
    /\ forecast[p] = NULL

\* C4: a call that missed the cache and got status 200 with a document
\* that parses returns the forecast of that document, and the cache then
\* returns, for the day of the write, exactly the bytes of the response.
C4_FetchedBytesAreCached ==
  \A p \in Procs :
    (pc[p] = "done" /\ Miss(p) /\ forecast[p] # NULL) =>
      /\ trace[p][2].status = <<0, HTTP_OK>>
      /\ forecast[p] = Parsed(Deref(trace[p][2].bytes)).forecast
      /\ wtr_cache_get(WTR_DRIVER_TIEMPO, code[p], trace[p][4].day,
                       files, dirs).ret = trace[p][2].bytes

\* C5: once a call for a location code has succeeded through the network
\* on some day, no call makes an HTTP request for that code on that day.
C5_OneFetchPerDay ==
  [][ \A p \in Procs :
        ( /\ Len(trace'[p]) = Len(trace[p]) + 1
          /\ trace'[p][Len(trace'[p])].op = "HttpClient.get" )
        => <<code[p], today>> \notin netOK ]_vars

\* After a successful fetch, a later call of the same day for the same code
\* has hit the cache and returned.
C5_Witness ==
  \E p \in Procs :
    /\ pc[p] = "done"
    /\ Hit(p)
    /\ <<code[p], trace[p][1].day>> \in netOK

\* C6: after a transfer that failed in curl the call returns no forecast
\* and reports the curl code; the bytes received are never parsed and the
\* files are not changed.
C6_TransportFailure ==
  \A p \in Procs :
    (Len(trace[p]) >= 2 /\ trace[p][2].op = "HttpClient.get"
       /\ trace[p][2].status[1] # 0) =>
      /\ pc[p] = "done"
      /\ forecast[p] = NULL
      /\ stderr[p] = << Diag("transport", trace[p][2].status[1]) >>
      /\ Calls(p, "Parser.parse") = <<>>
      /\ Calls(p, "Cache.set") = <<>>
      /\ files = before[p]

\* A transfer has failed after delivering a complete document.
C6_Witness ==
  \E p \in Procs :
    /\ pc[p] = "done"
    /\ Len(trace[p]) = 2
    /\ trace[p][2].status[1] = CURLE_PARTIAL_FILE
    /\ trace[p][2].bytes = Ptr(BodyA)

\* C7: after a transfer that completed with a status c other than 200 the
\* call returns no forecast and reports c; the body is never parsed and
\* the cache has no entry for the key.
C7_HttpStatusFailure ==
  \A p \in Procs :
    (Len(trace[p]) >= 2 /\ trace[p][2].op = "HttpClient.get"
       /\ trace[p][2].status[1] = 0 /\ trace[p][2].status[2] # HTTP_OK) =>
      /\ pc[p] = "done"
      /\ forecast[p] = NULL
      /\ stderr[p] = << Diag("status", trace[p][2].status[2]) >>
      /\ Calls(p, "Parser.parse") = <<>>
      /\ Calls(p, "Cache.set") = <<>>
      /\ files = before[p]
      /\ \A i \in 1..2 : CacheFile(trace[p][i].day, code[p]) \notin DOMAIN files

\* Status 500 has come with a document that would parse.
C7_Witness ==
  \E p \in Procs :
    /\ pc[p] = "done"
    /\ Len(trace[p]) = 2
    /\ trace[p][2].status = <<0, 500>>
    /\ trace[p][2].bytes = Ptr(BodyA)

\* The stage at which a returned call failed first, from what it did.
FirstFailure(p) ==
  IF Hit(p) THEN "parse"
  ELSE IF trace[p][2].status[1] # 0 THEN "transport"
  ELSE IF trace[p][2].status[2] # HTTP_OK THEN "status"
  ELSE "parse"

C9_LinearAndEndsInOutcome ==
  \A p \in Procs :
    /\ trace[p] # <<>> => Len(Calls(p, "Cache.get")) = 1
    /\ Len(Calls(p, "HttpClient.get")) <= 1
    /\ Len(Calls(p, "Parser.parse")) <= 1
    /\ Len(Calls(p, "Cache.set")) <= 1
    /\ \A i, j \in 1..Len(trace[p]) :
         trace[p][i].state = trace[p][j].state => i = j
    /\ pc[p] # "crashed"

\* C24: with the cache written by wtr_tiempo_forecast_get alone, every cache
\* file holds bytes that parse, and a call that hit the cache never ends
\* with the failure of the parse of the cached bytes.
C24_CacheHitAlwaysParses ==
  /\ \A f \in DOMAIN files : ~Unparseable(files[f])
  /\ \A p \in Procs : (Hit(p) /\ pc[p] = "done") => forecast[p] # NULL

\* C23: the wtr_cache_set of a call stores the response in the file of the
\* day on which the call's wtr_cache_get missed, whatever the local date
\* is at the time of the write, and in no other file.
C23_LookupAndWriteUseOneDate ==
  [][ \A p \in Procs :
        CacheStore(p) =>
          LET file == CacheFile(trace[p][1].day, code[p]) IN
          /\ file \in DOMAIN files'
          /\ \A f \in DOMAIN files' \ {file} :
               f \in DOMAIN files /\ files'[f] = files[f] ]_vars

(***************************************************************************)
(* Properties of the cache interface, checked under CacheSpec.             *)
(***************************************************************************)
\* C10: on every day, for every key, wtr_cache_get returns exactly the
\* bytes of the last wtr_cache_set of that key on that day, and NULL when
\* there was none.
C10_GetReturnsLastSet ==
  \A k \in ClientKeys :
    wtr_cache_get(k[1], k[2], today, files, dirs).ret =
      IF <<today, k[1], k[2]>> \in DOMAIN lastSet
      THEN Ptr(lastSet[<<today, k[1], k[2]>>])
      ELSE NULL

\* The keys set on a day, the key's day-partition file on a day.
SetOn(day) == { j \in DOMAIN lastSet : j[1] = day }
ClientFile(day, k) == wtr_cache_temp_file(k[1], k[2], day, dirs).ret

\* C11: a value set on one day is not returned on another day, although
\* its file is still there: on every day wtr_cache_get returns NULL for
\* every key until some wtr_cache_set is made on that day, what it returns
\* then is what was set on that day, and while the day's directory does
\* not exist it returns NULL; no file of an earlier day is removed.
C11_Invisible ==
  \A k \in ClientKeys :
    LET r == wtr_cache_get(k[1], k[2], today, files, dirs).ret IN
      /\ SetOn(today) = {} => r = NULL
      /\ wtr_cache_dir_today(today, {}).ret \notin dirs => r = NULL
      /\ r # NULL =>
           \E j \in SetOn(today) :
             /\ ClientFile(today, <<j[2], j[3]>>) = ClientFile(today, k)
             /\ r = Ptr(CStr(lastSet[j]))

C11_FilesStay ==
  \A f \in DOMAIN files : f \in DOMAIN files'

C11_DayIsolation ==
  [] C11_Invisible /\ [][C11_FilesStay]_vars

\* The date has rolled over after a set of a key, nothing was set on the
\* new day, the file of the earlier day is there, and a wtr_cache_get of
\* the key made on the new day (it has created the new day's directory)
\* has returned NULL.
C11_Witness ==
  \E k \in ClientKeys :
    /\ today = 2
    /\ <<1, k[1], k[2]>> \in DOMAIN lastSet
    /\ ClientFile(1, k) \in DOMAIN files
    /\ SetOn(2) = {}
    /\ wtr_cache_dir_today(2, {}).ret \in dirs
    /\ got = Ptr([driver |-> k[1], location_code |-> k[2], ret |-> NULL])

\* C22: a wtr_cache_set of one key leaves what wtr_cache_get returns for
\* every other key unchanged, the keys whose driver or location code
\* contains "-" included.
C22_KeysAreIndependent ==
  [][ \A k \in ClientKeys, b \in ClientData :
        ClientSet(k[1], k[2], b) =>
          \A j \in ClientKeys \ {k} :
            wtr_cache_get(j[1], j[2], today', files', dirs').ret =
              wtr_cache_get(j[1], j[2], today, files, dirs).ret ]_vars

(***************************************************************************)
(* Properties of concurrent invocations, checked under ConcSpec.           *)
(***************************************************************************)
\* p missed the cache, downloaded, parsed and has made its wtr_cache_set.
Stored4(p) == Miss(p) /\ Len(trace[p]) = 4 /\ trace[p][4].op = "Cache.set"

\* C12: when two calls for the same location code have both missed the
\* cache, both downloaded and both stored, the cache file is, byte for
\* byte, the response body of one of the two, and each call has returned
\* the forecast parsed from its own response.
C12_EntryIsOneWholeBody ==
  \A p, q \in Procs :
    (p # q /\ code[p] = code[q] /\ Stored4(p) /\ Stored4(q)) =>
      /\ CacheFile(today, code[p]) \in DOMAIN files
      /\ files[CacheFile(today, code[p])] \in
           { Deref(trace[p][2].bytes), Deref(trace[q][2].bytes) }
      /\ pc[p] = "done" =>
           forecast[p] = Parsed(Deref(trace[p][2].bytes)).forecast

\* The bytes that p handed to the parser.
ParsedBy(p) == Deref(Calls(p, "Parser.parse")[1].bytes)

\* The holder of a forecast between the end of the parse and the free.
Holds(p) == pc[p] \in {"CacheStore", "done", "printed"} /\ forecast[p] # NULL

C20_AsParsed ==
  \A p \in Procs : Holds(p) => forecast[p] = Parsed(ParsedBy(p)).forecast

C20_Frame ==
  \A p \in Procs :
    (Holds(p) /\ ~(pc[p] = "printed" /\ pc'[p] = "freed")) =>
      forecast'[p] = forecast[p]

\* C20: from the end of the parse that made it until it is freed, a
\* forecast is what the parser returned: no step of its holder (storing
\* the document, printing with or without the hours) and no step of
\* another invocation (lookup, download, parse, store, print, free)
\* changes its days or their hours.
C20_ForecastIsReadOnly ==
  [] C20_AsParsed /\ [][C20_Frame]_vars

\* p downloaded, parsed, stored and printed its forecast with the hours;
\* q was then served from the file p stored and has returned.
C20_Witness ==
  \E p, q \in Procs :
    /\ p # q
    /\ Stored4(p)
    /\ pc[p] = "printed"
    /\ forecast[p] # NULL
    /\ \E i \in 1..Len(stdout[p]) : "tstamp_str" \in DOMAIN stdout[p][i]
    /\ code[q] = code[p]
    /\ Hit(q)
    /\ pc[q] = "done"

\* C26: get_forecasts prints and frees only a forecast that
\* wtr_tiempo_forecast_get returned: no step of wtr_forecast_print or of
\* wtr_forecast_free is taken with NULL, and neither of them faults.
C26_OnlyAForecastIsPrintedAndFreed ==
  [][ \A p \in Procs, details \in BOOLEAN :
        (ShowForecast(p, details) \/ FreeForecast(p)) =>
          forecast[p] # NULL /\ pc'[p] # "crashed" ]_vars

(***************************************************************************)
(* Properties of the parser, checked under ParserSpec.                     *)
(***************************************************************************)
\* The document libxml2 makes of the client's input, and the root of it.
InputDoc == xmlReadMemory(Deref(parse).content, Deref(parse).length)
InputRoot == Deref(InputDoc)

\* C13: for bytes that are not a well-formed document the parser returns
\* NULL and reports "Failed to parse document"; for a well-formed document
\* whose root is not "report" it returns NULL and reports "root element
\* report not found"; in both cases there is no forecast and no fault.
C13_SyntaxAndRootErrors ==
  parse # NULL =>
    /\ InputDoc = NULL =>
         Deref(parse).ret =
           ParseResult(NULL, << ParseDiag("Failed to parse document") >>, FALSE)
    /\ (InputDoc # NULL /\ InputRoot.name # "report") =>
         Deref(parse).ret =
           ParseResult(NULL, << ParseDiag("root element report not found") >>,
                       FALSE)

\* A well-formed document of another vocabulary has been refused.
C13_Witness ==
  /\ parse # NULL
  /\ Deref(parse).content = BodyHtml
  /\ Deref(parse).length = Len(BodyHtml)
  /\ Deref(parse).ret.forecast = NULL
  /\ Len(Deref(parse).ret.err) = 1

\* C14: for a well-formed document with root "report" whose first child is
\* not a "location" element, a report without children included, the
\* parser returns NULL and reports "location element inside report not
\* found", and the process does not fault.
C14_MissingLocationIsStructureError ==
  ( /\ parse # NULL
    /\ InputDoc # NULL
    /\ InputRoot.name = "report"
    /\ \/ InputRoot.children = <<>>
       \/ Head(InputRoot.children).name # "location" ) =>
      Deref(parse).ret =
        ParseResult(NULL,
          << ParseDiag("location element inside report not found") >>, FALSE)

\* The positions in seq of the elements with the given tag, and the k-th
\* of a set of positions.
IndexOf(seq, tag) == { i \in 1..Len(seq) : seq[i].name = tag }
Nth(S, k) == CHOOSE i \in S : Cardinality({ j \in S : j < i }) = k - 1

\* The tags the parser knows below a day and below an hour.
KnownOfDay ==
  { "symbol", "tempmin", "tempmax", "wind", "rain", "humidity", "pressure",
    "hour" }
KnownOfHour == { "symbol", "temp", "wind", "rain", "humidity", "pressure" }

\* A day element without the children of other tags, at day and hour level.
StripDay(xmlDay) ==
  LET kept == SelectSeq(xmlDay.children, LAMBDA c : c.name \in KnownOfDay) IN
  [xmlDay EXCEPT !.children =
     [i \in 1..Len(kept) |->
        IF kept[i].name = "hour"
        THEN [kept[i] EXCEPT !.children =
                SelectSeq(@, LAMBDA c : c.name \in KnownOfHour)]
        ELSE kept[i]]]

\* Every day, every hour and every measurement below the location element
\* has a "value" attribute.
AllValued(location) ==
  \A i \in IndexOf(location.children, "day") :
    LET xmlDay == location.children[i] IN
    /\ xmlDay.value # NULL
    /\ \A j \in 1..Len(xmlDay.children) :
         LET c == xmlDay.children[j] IN
         /\ c.name \in KnownOfDay => c.value # NULL
         /\ c.name = "hour" =>
              \A k \in 1..Len(c.children) :
                c.children[k].name \in KnownOfHour => c.children[k].value # NULL

\* The number written in the characters a..b of text.
RECURSIVE Num(_, _, _)
Num(text, a, b) ==
  IF b < a THEN 0 ELSE Num(text, a, b - 1) * 10 + DigitVal(Char(text, b))

DigitsAt(text, a, b) == \A i \in a..b : isdigit(Char(text, i))

\* The days of month m of year y in the calendar.
DaysInMonth(y, m) ==
  IF m = 2
  THEN (IF y % 4 = 0 /\ (y % 100 # 0 \/ y % 400 = 0) THEN 29 ELSE 28)
  ELSE IF m \in {4, 6, 9, 11} THEN 30 ELSE 31

\* text is a day of the calendar written YYYYMMDD; the day it is, at 00:00:00.
CalendarDate(text) ==
  /\ Len(text) = 8
  /\ DigitsAt(text, 1, 8)
  /\ Num(text, 1, 4) >= 1
  /\ Num(text, 5, 6) \in 1..12
  /\ Num(text, 7, 8) \in 1..DaysInMonth(Num(text, 1, 4), Num(text, 5, 6))
DateOf(text) ==
  [year |-> Num(text, 1, 4), month |-> Num(text, 5, 6), day |-> Num(text, 7, 8),
   hour |-> 0, minute |-> 0, second |-> 0]

\* text is a time of day written H:MM or HH:MM.
ClockTime(text) ==
  /\ Len(text) \in {4, 5}
  /\ DigitsAt(text, 1, Len(text) - 3)
  /\ Char(text, Len(text) - 2) = ":"
  /\ DigitsAt(text, Len(text) - 1, Len(text))
  /\ Num(text, 1, Len(text) - 3) <= 23
  /\ Num(text, Len(text) - 1, Len(text)) <= 59
HourOf(text) == Num(text, 1, Len(text) - 3)
MinuteOf(text) == Num(text, Len(text) - 1, Len(text))

\* C15: a forecast returned by the parser has one day per child of the
\* location element tagged "day", in document order, with the date of that
\* element, and each day has one hour per child of the day element tagged
\* "hour", in document order, with the time of that element; children with
\* other tags, at any level, add nothing and change nothing.  A document
\* whose first child of the report is the location, with a value on every
\* day, hour and measurement, gives a forecast.
C15_OneDayPerDayElement ==
  parse # NULL =>
    LET r == Deref(parse).ret IN
    /\ ( /\ InputDoc # NULL
         /\ InputRoot.name = "report"
         /\ InputRoot.children # <<>>
         /\ Head(InputRoot.children).name = "location"
         /\ AllValued(Head(InputRoot.children)) )
       => r.forecast # NULL /\ r.err = <<>> /\ ~r.fault
    /\ r.forecast # NULL =>
         LET location == Head(InputRoot.children)
             dayIdx == IndexOf(location.children, "day")
             days == Deref(r.forecast).days
         IN
         /\ Len(days) = Cardinality(dayIdx)
         /\ \A k \in 1..Len(days) :
              LET xmlDay == location.children[Nth(dayIdx, k)]
                  hourIdx == IndexOf(xmlDay.children, "hour")
              IN
              /\ CalendarDate(Deref(xmlDay.value)) =>
                   Deref(days[k].date) = DateOf(Deref(xmlDay.value))
              /\ Len(days[k].hours) = Cardinality(hourIdx)
              /\ \A h \in 1..Len(days[k].hours) :
                   LET time == Deref(xmlDay.children[Nth(hourIdx, h)].value) IN
                   ClockTime(time) =>
                     /\ Deref(days[k].hours[h].tstamp).hour = HourOf(time)
                     /\ Deref(days[k].hours[h].tstamp).minute = MinuteOf(time)
              /\ days[k] = wtr_forecast_parse_day(StripDay(xmlDay)).ret

\* The document of five days whose first two have eight hours each has
\* been parsed.
C15_Witness ==
  /\ parse # NULL
  /\ Deref(parse).content = Body5x8
  /\ Deref(parse).ret.forecast # NULL
  /\ Len(Deref(Deref(parse).ret.forecast).days) = 5
  /\ Len(Deref(Deref(parse).ret.forecast).days[1].hours) = 8
  /\ Len(Deref(Deref(parse).ret.forecast).days[2].hours) = 8
  /\ Len(Deref(Deref(parse).ret.forecast).days[3].hours) = 0

\* The field a measurement of the generated documents is stored in, and
\* the texts of AttrValues that are no number of the field's type (0 is
\* the missing attribute).
FieldOfDay ==
  << "weather", "temp_min", "temp_max", "wind_speed", "rain", "humidity",
     "pressure" >>
FieldOfHour == << "weather", "temp", "wind_speed", "rain", "humidity", "pressure" >>
NoInt == {0} \cup 5..11 \cup {13, 15, 16}
NoDouble == {0} \cup 5..10

\* What the parser is to return for MeasureTree(t, v) when v is no number
\* of the type of the field: what it returns for a value that is one, with
\* the sentinel in the one field.
WithSentinel(t) ==
  LET good == Deref(wtr_forecast_parse(MeasureBody(t, 1), 5).forecast)
      onDay == t <= Len(DayTags)
      field == IF onDay THEN FieldOfDay[t] ELSE FieldOfHour[t - Len(DayTags)]
      sentinel == IF field = "rain" THEN Stored(DBL_MIN) ELSE Stored(INT_MIN)
  IN  IF onDay THEN [good EXCEPT !.days[1][field] = sentinel]
      ELSE [good EXCEPT !.days[1].hours[1][field] = sentinel]

\* C16: when the "value" attribute of a measurement of a day or of an
\* hour is missing or is no number of the field's type, the parse returns
\* a forecast in which that field is INT_MIN (DBL_MIN for rain) and every
\* other day, hour and field is what it is for a value that is a number.
C16_UnparseableGivesSentinel ==
  ( /\ parse # NULL
    /\ Deref(parse).content \in MeasureBodies
    /\ Deref(parse).length = Len(Deref(parse).content) ) =>
    LET t == Deref(parse).content[3] - 64
        v == Deref(parse).content[4] - 64
        rain == t \in {5, Len(DayTags) + 4}
    IN  v \in (IF rain THEN NoDouble ELSE NoInt) =>
          Deref(parse).ret = ParseResult(Ptr(WithSentinel(t)), <<>>, FALSE)

\* The hours of the hour elements of the document read have the time
\* their element says, on the day of their day.
StampsAgree(xmlDay, day) ==
  LET hourIdx == IndexOf(xmlDay.children, "hour") IN
  \A h \in 1..Len(day.hours) :
    LET time   == Deref(xmlDay.children[Nth(hourIdx, h)].value)
        tstamp == Deref(day.hours[h].tstamp)
    IN
    /\ tstamp.year = Deref(day.date).year
    /\ tstamp.month = Deref(day.date).month
    /\ tstamp.day = Deref(day.date).day
    /\ tstamp.second = 0
    /\ ClockTime(time) =>
         tstamp.hour = HourOf(time) /\ tstamp.minute = MinuteOf(time)

\* C21: in a forecast returned by the parser, the timestamp of every hour
\* has the year, month and day of the date of its day, the hour and minute
\* written in the "value" of its hour element when that is a time of day
\* H:MM or HH:MM, and 0 seconds; the date of a day is the day written in
\* the "value" of its day element when that is a day of the calendar
\* written YYYYMMDD.
C21_HourStampIsDayDatePlusTime ==
  (parse # NULL /\ Deref(parse).ret.forecast # NULL) =>
    LET location == Head(InputRoot.children)
        dayIdx == IndexOf(location.children, "day")
        days == Deref(Deref(parse).ret.forecast).days
    IN
    \A k \in 1..Len(days) :
      LET xmlDay == location.children[Nth(dayIdx, k)] IN
      /\ CalendarDate(Deref(xmlDay.value)) =>
           Deref(days[k].date) = DateOf(Deref(xmlDay.value))
      /\ StampsAgree(xmlDay, days[k])

\* The document whose first day is 29 February 2016 with an hour at 07:05
\* has been parsed.
C21_Witness ==
  /\ parse # NULL
  /\ Deref(parse).content = TimeBody(3, 2)
  /\ Deref(parse).length = 5
  /\ Deref(parse).ret.forecast # NULL
  /\ Deref(Deref(Deref(parse).ret.forecast).days[1].hours[1].tstamp) =
       [year |-> 2016, month |-> 2, day |-> 29, hour |-> 7, minute |-> 5,
        second |-> 0]
  /\ Deref(Deref(Deref(parse).ret.forecast).days[1].hours[2].tstamp) =
       [year |-> 2016, month |-> 2, day |-> 29, hour |-> 13, minute |-> 30,
        second |-> 0]

\* What the claim gives for the field of a tag: the number in the "value"
\* of the last child with the tag, the sentinel when no child has the tag.
Measured(children, tag, field) ==
  LET named == ChildrenNamed(children, tag)
      sentinel == IF field = "rain" THEN DBL_MIN ELSE INT_MIN
  IN  IF named = <<>> THEN sentinel
      ELSE IF field = "rain"
           THEN xmlGetPropDouble(named[Len(named)], "value").ret
           ELSE xmlGetPropInt(named[Len(named)], "value").ret

\* Every numeric field of the struct read from the element holds that value.
FieldsDefined(element, struct, tags, fields) ==
  \A i \in 1..Len(tags) :
    struct[fields[i]] = Stored(Measured(element.children, tags[i], fields[i]))

\* C25: in a forecast returned by the parser every numeric field of every
\* day and of every hour holds a value fixed by the document: the number of
\* the last child with the field's tag, or the sentinel (INT_MIN, DBL_MIN
\* for rain) when the element has no child with that tag.
C25_EveryFieldIsDefined ==
  (parse # NULL /\ Deref(parse).ret.forecast # NULL) =>
    LET location == Head(InputRoot.children)
        dayIdx == IndexOf(location.children, "day")
        days == Deref(Deref(parse).ret.forecast).days
    IN
    \A k \in 1..Len(days) :
      LET xmlDay == location.children[Nth(dayIdx, k)]
          hourIdx == IndexOf(xmlDay.children, "hour")
      IN
      /\ FieldsDefined(xmlDay, days[k], DayTags, FieldOfDay)
      /\ \A h \in 1..Len(days[k].hours) :
           FieldsDefined(xmlDay.children[Nth(hourIdx, h)], days[k].hours[h],
                         HourTags, FieldOfHour)

(***************************************************************************)
(* Properties of the location directory, checked under SearchSpec.         *)
(***************************************************************************)
\* a and b are the same text but for the case of their letters.
SameLetters(a, b) ==
  /\ Len(a) = Len(b)
  /\ \A k \in 1..Len(a) :
       \/ Char(a, k) = Char(b, k)
       \/ \E n \in 1..26 :
            {Char(a, k), Char(b, k)} = {Char(ASCII_LOWER, n), Char(ASCII_UPPER, n)}

\* C17: a search by exact name for the name of a registry entry, in any
\* mix of upper and lower case, returns that entry and nothing else; a
\* query that is no name of the registry in any case, a proper part of a
\* name for example, returns the empty list.
C17_ExactName ==
  (found # NULL /\ Deref(found).search_type = "WTR_SEARCH_LOCATION_EXACT_NAME") =>
    /\ \A i \in 1..Len(WTR_LOCATIONS) :
         SameLetters(Deref(found).query, WTR_LOCATIONS[i].name) =>
           Deref(found).ret = << i >>
    /\ (\A i \in 1..Len(WTR_LOCATIONS) :
          ~SameLetters(Deref(found).query, WTR_LOCATIONS[i].name)) =>
         Deref(found).ret = << >>

\* ORVIETO has been found by its name in mixed case.
C17_Witness ==
  /\ found # NULL
  /\ Deref(found).search_type = "WTR_SEARCH_LOCATION_EXACT_NAME"
  /\ Deref(found).query = "OrViEtO"
  /\ Deref(found).ret = << 3 >>

\* The name has a part that is q but for the case of the letters.
NameContains(name, q) ==
  \E a \in 1..(Len(name) - Len(q) + 1) :
    SameLetters(SubSeq(name, a, a + Len(q) - 1), q)

\* C18: a search by partial name returns the registry entries whose name
\* contains the upper-cased query, each once and in registry order, and
\* no other entry; the empty query returns the whole registry.
C18_PartialName ==
  (found # NULL /\ Deref(found).search_type = "WTR_SEARCH_LOCATION_PARTIAL_NAME") =>
    LET ret == Deref(found).ret IN
    /\ \A i \in 1..Len(WTR_LOCATIONS) :
         (\E k \in 1..Len(ret) : ret[k] = i)
           <=> NameContains(WTR_LOCATIONS[i].name, Deref(found).query)
    /\ \A k \in 1..(Len(ret) - 1) : ret[k] < ret[k + 1]
    /\ Deref(found).query = "" => ret = << 1, 2, 3, 4, 5 >>

\* A query in lower case has found the two names that contain it.
C18_Witness ==
  /\ found # NULL
  /\ Deref(found).search_type = "WTR_SEARCH_LOCATION_PARTIAL_NAME"
  /\ Deref(found).query = "er"
  /\ Deref(found).ret = << 4, 5 >>

\* C19: a search by exact code returns the registry entries whose code is
\* character for character the query, and no other entry.
C19_ExactCode ==
  (found # NULL /\ Deref(found).search_type = "WTR_SEARCH_LOCATION_EXACT_CODE") =>
    LET ret == Deref(found).ret IN
    /\ \A i \in 1..Len(WTR_LOCATIONS) :
         (\E k \in 1..Len(ret) : ret[k] = i)
           <=> WTR_LOCATIONS[i].code = Deref(found).query
    /\ Len(ret) <= 1

\* ORVIETO has been found by its code.
C19_Witness ==
  /\ found # NULL
  /\ Deref(found).search_type = "WTR_SEARCH_LOCATION_EXACT_CODE"
  /\ Deref(found).query = "30625"
  /\ Deref(found).ret = << 3 >>

====
